---- MODULE Spec2Model ----
(***************************************************************************)
(* Consolidated multi-venue limit order book (src/orderbook.cpp).          *)
(*                                                                         *)
(* Encodings used throughout:                                              *)
(*  - a double price is a fixed-point number of thousandths, so that the   *)
(*    rounding done by p2i is visible (10.004 -> tick 1000, 10.005 ->      *)
(*    tick 1001);                                                          *)
(*  - a uint32_t is held as its 32-bit pattern read as a two's-complement  *)
(*    int, which is exactly the conversion adjust(vid, int d) performs: a  *)
(*    value below 2^31 is itself, a wrapped-below-zero counter shows up as *)
(*    a negative number;                                                   *)
(*  - a char venue code is its code point;                                 *)
(*  - a C++ exception is the result [kind |-> "error"], with the state as  *)
(*    it stands at the throw;                                              *)
(*  - `prev` in SideBook::add (line 55), which the source declares         *)
(*    nowhere, is read as `prev_best`.                                     *)
(***************************************************************************)
EXTENDS Integers, Sequences, FiniteSets, TLC

VARIABLES bid_, ask_, omap_, ret, last

vars == <<bid_, ask_, omap_, ret, last>>

(* ---------- constants / helpers ---------- *)
TICK == 10
INV_TICK == 100
NUM_VENUES == 14
INT_MAX == 2147483647
INT_MIN == -INT_MAX - 1

VENUES ==
  <<"CBOE", "ISE", "BOX", "MIAX", "ARCA", "PHLX", "GEM", "EDGX",
    "BAT", "MRX", "BZX", "NDQ", "C2", "AMEX">>

\* single-character venue codes, as code points, by venue index 0..13:
\* C I B M A P G E T R Z N 2 X
VENUE_CODE ==
  [i \in 0..(NUM_VENUES - 1) |->
     <<67, 73, 66, 77, 65, 80, 71, 69, 84, 82, 90, 78, 50, 88>>[i + 1]]

\* the keys VENUE_MAP.at(venue_code) accepts
KnownCodes == {VENUE_CODE[i] : i \in 0..(NUM_VENUES - 1)}

VENUE_MAP(code) == CHOOSE i \in 0..(NUM_VENUES - 1) : VENUE_CODE[i] = code

p2i(p) == (p * INV_TICK + 500) \div 1000
i2p(idx) == idx * TICK

\* 32-bit wrapping addition of two bit patterns
WrapAdd(a, d) ==
  IF d > 0 /\ a > INT_MAX - d THEN (a - INT_MAX - 1) + (d - INT_MAX - 1)
  ELSE IF d < 0 /\ a < INT_MIN - d THEN (a + INT_MAX + 1) + (d + INT_MAX + 1)
  ELSE a + d

\* -int(qty)
Neg(d) == IF d = INT_MIN THEN INT_MIN ELSE 0 - d

\* unsigned a < b on bit patterns
ULess(a, b) == IF (a < 0) = (b < 0) THEN a < b ELSE b < 0

UMin(a, b) == IF ULess(b, a) THEN b ELSE a

(* ---------- PriceLevel ---------- *)
EmptyLevel == [vqty |-> [v \in 0..(NUM_VENUES - 1) |-> 0], agg |-> 0]

\* adjust that forgets agg += d
adjust_no_agg(pl, vid, d) ==
  [vqty |-> [pl.vqty EXCEPT ![vid] = WrapAdd(@, d)], agg |-> pl.agg]

adjust(pl, vid, d) ==
  [vqty |-> [pl.vqty EXCEPT ![vid] = WrapAdd(@, d)], agg |-> WrapAdd(pl.agg, d)]

(* ---------- SideBook ---------- *)
SideBook(is_bid) ==
  [is_bid |-> is_bid, ticks |-> {}, levels |-> [t \in {} |-> EmptyLevel]]

Max(S) == CHOOSE x \in S : \A y \in S : y <= x
Min(S) == CHOOSE x \in S : \A y \in S : x <= y

Sentinel(is_bid) == IF is_bid THEN -1 ELSE INT_MAX

best_idx(sb) ==
  IF sb.ticks = {} THEN Sentinel(sb.is_bid)
  ELSE IF sb.is_bid THEN Max(sb.ticks) ELSE Min(sb.ticks)

\* NAN: no number a price can be
NoPrice == -1

best_price(sb) ==
  LET b == best_idx(sb) IN
  IF sb.is_bid /\ b = -1 THEN NoPrice
  ELSE IF ~sb.is_bid /\ b = INT_MAX THEN NoPrice
  ELSE i2p(b)

\* levels_ with key idx bound to pl
PutLevel(levels, idx, pl) ==
  [t \in (DOMAIN levels) \cup {idx} |-> IF t = idx THEN pl ELSE levels[t]]

EraseLevel(levels, idx) == [t \in (DOMAIN levels) \ {idx} |-> levels[t]]

\* add without the sentinel test: an add to an empty side reports the sentinel
add_no_suppress(sb, idx, vid, qty) ==
  LET pl0       == IF idx \in DOMAIN sb.levels THEN sb.levels[idx] ELSE EmptyLevel
      prev_best == best_idx(sb)
      pl1       == [vqty |-> [pl0.vqty EXCEPT ![vid] = WrapAdd(@, qty)],
                    agg  |-> WrapAdd(pl0.agg, qty)]
      sb1       == [sb EXCEPT !.levels = PutLevel(sb.levels, idx, pl1),
                              !.ticks  = IF pl0.agg = 0 THEN @ \cup {idx} ELSE @]
  IN [sb   |-> sb1,
      prev |-> IF best_idx(sb1) # prev_best THEN prev_best ELSE INT_MIN]

\* add qty; [sb |-> the side book afterwards, prev |-> prev_best or INT_MIN]
add(sb, idx, vid, qty) ==
  LET pl0       == IF idx \in DOMAIN sb.levels THEN sb.levels[idx] ELSE EmptyLevel
      prev_best == best_idx(sb)
      first     == pl0.agg = 0
      pl1       == adjust(pl0, vid, qty)
      sb1       == [sb EXCEPT !.levels = PutLevel(sb.levels, idx, pl1),
                              !.ticks  = IF first THEN @ \cup {idx} ELSE @]
      new_best  == best_idx(sb1)
  IN [sb   |-> sb1,
      prev |-> IF prev_best = Sentinel(sb.is_bid) THEN INT_MIN
               ELSE IF new_best # prev_best THEN prev_best ELSE INT_MIN]

\* remove that leaves a level whose agg has reached 0 in levels_ and ticks_
remove_keep_level(sb, idx, vid, qty) ==
  IF idx \notin DOMAIN sb.levels THEN [sb |-> sb, ok |-> FALSE]
  ELSE [sb |-> [sb EXCEPT !.levels[idx] =
                  [vqty |-> [@.vqty EXCEPT ![vid] = WrapAdd(@, Neg(qty))],
                   agg  |-> WrapAdd(@.agg, Neg(qty))]],
        ok |-> TRUE]

\* remove qty; [sb |-> the side book afterwards, ok |-> FALSE when levels_.at threw]
remove(sb, idx, vid, qty) ==
  IF idx \notin DOMAIN sb.levels THEN [sb |-> sb, ok |-> FALSE]
  ELSE LET pl == adjust(sb.levels[idx], vid, Neg(qty)) IN
       IF pl.agg = 0
       THEN [sb |-> [sb EXCEPT !.ticks = @ \ {idx},
                               !.levels = EraseLevel(@, idx)],
             ok |-> TRUE]
       ELSE [sb |-> [sb EXCEPT !.levels = PutLevel(@, idx, pl)], ok |-> TRUE]

(* ---------- OrderBook ---------- *)
\* the coordinator's state as one value: both side books and the order index
Book == [bid |-> bid_, ask |-> ask_, omap |-> omap_]

\* Meta::sb is a pointer to bid_ or ask_: the tag of the book it points to
SbOf(b, tag) == IF tag = "bid" THEN b.bid ELSE b.ask

SetSb(b, tag, sb) == IF tag = "bid" THEN [b EXCEPT !.bid = sb] ELSE [b EXCEPT !.ask = sb]

Meta(tag, idx, vid, qty) == [sb |-> tag, idx |-> idx, vid |-> vid, qty |-> qty]

None == [kind |-> "none"]
Error == [kind |-> "error"]

\* venue_string without the sort: the codes in the order of the venue indices
venue_string_unsorted(pl) ==
  LET present == {i \in 0..(NUM_VENUES - 1) : pl.vqty[i] # 0}
      out[i \in -1..(NUM_VENUES - 1)] ==
        IF i = -1 THEN <<>>
        ELSE IF i \in present THEN Append(out[i - 1], VENUE_CODE[i])
        ELSE out[i - 1]
  IN out[NUM_VENUES - 1]

\* venue codes of the venues with qty > 0, sorted ascending
venue_string(pl) ==
  LET present == {i \in 0..(NUM_VENUES - 1) : pl.vqty[i] # 0}
      out[i \in -1..(NUM_VENUES - 1)] ==
        IF i = -1 THEN <<>>
        ELSE IF i \in present THEN Append(out[i - 1], VENUE_CODE[i])
        ELSE out[i - 1]
  IN SortSeq(out[NUM_VENUES - 1], LAMBDA x, y : x < y)

\* nbbo_tuple with the two levels taken the other way round
nbbo_tuple_swapped(sb, new_idx, old_idx) ==
  IF new_idx \notin DOMAIN sb.levels \/ old_idx \notin DOMAIN sb.levels THEN Error
  ELSE [kind |-> "nbbo",
        new_price |-> i2p(old_idx), new_agg |-> sb.levels[old_idx].agg,
        old_price |-> i2p(new_idx), old_agg |-> sb.levels[new_idx].agg,
        old_venues |-> venue_string(sb.levels[new_idx])]

nbbo_tuple(sb, new_idx, old_idx) ==
  IF new_idx \notin DOMAIN sb.levels \/ old_idx \notin DOMAIN sb.levels THEN Error
  ELSE LET new_pl == sb.levels[new_idx]
           old_pl == sb.levels[old_idx]
       IN [kind |-> "nbbo",
           new_price |-> i2p(new_idx), new_agg |-> new_pl.agg,
           old_price |-> i2p(old_idx), old_agg |-> old_pl.agg,
           old_venues |-> venue_string(old_pl)]

\* on_add that first takes a live order of the same identifier off the book
on_add_drop_old(b, oid, venue_code, side_b, price, qty) ==
  IF venue_code \notin KnownCodes THEN [b |-> b, ret |-> Error]
  ELSE LET c == IF oid \in DOMAIN b.omap
                  THEN LET m == b.omap[oid]
                       IN SetSb(b, m.sb, remove(SbOf(b, m.sb), m.idx, m.vid, m.qty).sb)
                  ELSE b
           tag == IF side_b = "BID" THEN "bid" ELSE "ask"
           idx == p2i(price)
           r == add(SbOf(c, tag), idx, VENUE_MAP(venue_code), qty)
       IN [b   |-> [SetSb(c, tag, r.sb) EXCEPT
                      !.omap = [o \in DOMAIN c.omap \cup {oid} |->
                                  IF o = oid
                                    THEN Meta(tag, idx, VENUE_MAP(venue_code), qty)
                                    ELSE c.omap[o]]],
           ret |-> IF r.prev # INT_MIN THEN nbbo_tuple(r.sb, idx, r.prev) ELSE None]

\* every on_* operator gives [b |-> the state afterwards, ret |-> the result]
on_add(b, oid, venue_code, side_b, price, qty) ==
  LET tag == IF side_b = "BID" THEN "bid" ELSE "ask"
      idx == p2i(price)
  IN IF venue_code \notin KnownCodes THEN [b |-> b, ret |-> Error]
     ELSE LET vid == VENUE_MAP(venue_code)
              r   == add(SbOf(b, tag), idx, vid, qty)
              b1  == SetSb(b, tag, r.sb)
              b2  == [b1 EXCEPT !.omap =
                        [o \in (DOMAIN b.omap) \cup {oid} |->
                           IF o = oid THEN Meta(tag, idx, vid, qty) ELSE b.omap[o]]]
          IN [b   |-> b2,
              ret |-> IF r.prev # INT_MIN THEN nbbo_tuple(r.sb, idx, r.prev) ELSE None]

\* omap_.clear() in the place of omap_.erase
EraseOrder_clear(omap, oid) == [o \in {} |-> omap[o]]

EraseOrder(omap, oid) == [o \in (DOMAIN omap) \ {oid} |-> omap[o]]

\* on_cancel that treats an identifier it does not know as an error
on_cancel_unknown_throws(b, oid) ==
  IF oid \notin DOMAIN b.omap THEN [b |-> b, ret |-> Error]
  ELSE LET m == b.omap[oid]
           r == remove(SbOf(b, m.sb), m.idx, m.vid, m.qty)
       IN [b   |-> SetSb([b EXCEPT !.omap = EraseOrder(@, oid)], m.sb, r.sb),
           ret |-> IF r.ok THEN None ELSE Error]

\* on_cancel that erases the index entry and leaves the book alone
on_cancel_no_remove(b, oid) ==
  IF oid \notin DOMAIN b.omap THEN [b |-> b, ret |-> None]
  ELSE [b |-> [b EXCEPT !.omap = EraseOrder(@, oid)], ret |-> None]

on_cancel(b, oid) ==
  IF oid \notin DOMAIN b.omap THEN [b |-> b, ret |-> None]
  ELSE LET m  == b.omap[oid]
           b1 == [b EXCEPT !.omap = EraseOrder(@, oid)]
           r  == remove(SbOf(b1, m.sb), m.idx, m.vid, m.qty)
       IN [b |-> SetSb(b1, m.sb, r.sb), ret |-> IF r.ok THEN None ELSE Error]

\* on_replace that cancels old_oid before it adds the new order
on_replace_cancel_first(b, new_oid, old_oid, venue_code, side_b, price, qty) ==
  IF venue_code \notin KnownCodes THEN [b |-> b, ret |-> Error]
  ELSE LET c == on_cancel(b, old_oid)
           a == on_add(c.b, new_oid, venue_code, side_b, price, qty)
       IN IF c.ret = Error THEN c ELSE a

on_replace(b, new_oid, old_oid, venue_code, side_b, price, qty) ==
  LET res == on_add(b, new_oid, venue_code, side_b, price, qty) IN
  IF res.ret = Error THEN res
  ELSE LET c == on_cancel(res.b, old_oid) IN
       [b |-> c.b, ret |-> IF c.ret = Error THEN Error ELSE res.ret]

\* on_execute that takes exec_qty whatever the order has left
on_execute_no_min(b, oid, exec_qty, freed) ==
  IF oid \notin DOMAIN b.omap THEN [b |-> b, ret |-> None]
  ELSE LET m0   == b.omap[oid]
           take == exec_qty
           m    == [m0 EXCEPT !.qty = WrapAdd(@, Neg(take))]
           b1   == [b EXCEPT !.omap[oid] = m]
           r    == remove(SbOf(b1, m.sb), m.idx, m.vid, take)
           b2   == SetSb(b1, m.sb, r.sb)
       IN IF ~r.ok THEN [b |-> b1, ret |-> Error]
          ELSE IF m.idx \notin DOMAIN r.sb.levels THEN [b |-> b2, ret |-> Error]
          ELSE LET pl == r.sb.levels[m.idx] IN
               [b   |-> IF m.qty = 0
                        THEN [b2 EXCEPT !.omap = EraseOrder(@, oid)] ELSE b2,
                ret |-> [kind |-> "exec",
                         price |-> i2p(IF m.qty = 0 THEN freed ELSE m.idx),
                         agg |-> pl.agg,
                         per_venue |-> pl.vqty,
                         venues |-> venue_string(pl)]]

\* freed: the int read through the reference m after omap_.erase(it) has
\* destroyed the entry it refers to (line 175 after line 172)
on_execute(b, oid, exec_qty, freed) ==
  IF oid \notin DOMAIN b.omap THEN [b |-> b, ret |-> None]
  ELSE LET m0   == b.omap[oid]
           take == UMin(exec_qty, m0.qty)
           m    == [m0 EXCEPT !.qty = WrapAdd(@, Neg(take))]
           b1   == [b EXCEPT !.omap[oid] = m]
           r    == remove(SbOf(b1, m.sb), m.idx, m.vid, take)
           b2   == SetSb(b1, m.sb, r.sb)
       IN IF ~r.ok THEN [b |-> b1, ret |-> Error]
          ELSE IF m.idx \notin DOMAIN r.sb.levels THEN [b |-> b2, ret |-> Error]
          ELSE LET pl == r.sb.levels[m.idx] IN
               [b   |-> IF m.qty = 0
                        THEN [b2 EXCEPT !.omap = EraseOrder(@, oid)] ELSE b2,
                ret |-> [kind |-> "exec",
                         price |-> i2p(IF m.qty = 0 THEN freed ELSE m.idx),
                         agg |-> pl.agg,
                         per_venue |-> pl.vqty,
                         venues |-> venue_string(pl)]]

best_bid(b) == best_price(b.bid)
best_ask(b) == best_price(b.ask)

\* what on_batch's on_execute reads through the dangling reference: garbage
\* (0) or the stale tick
FreedIn(b, oid, garbage) ==
  IF garbage \/ oid \notin DOMAIN b.omap THEN 0 ELSE b.omap[oid].idx

\* the body of on_batch's loop for one item t: the call that its command
\* selects, "Bad cmd" for any other command
BatchItem(b, t, garbage) ==
  IF t.cmd = "add"
    THEN on_add(b, t.oid, t.venue, t.side, t.price, t.qty)
  ELSE IF t.cmd = "execute"
    THEN on_execute(b, t.oid, t.qty, FreedIn(b, t.oid, garbage))
  ELSE IF t.cmd = "cancel"
    THEN LET r == on_cancel(b, t.oid)
         IN [b |-> r.b, ret |-> IF r.ret = Error THEN Error ELSE None]
  ELSE IF t.cmd = "replace"
    THEN on_replace(b, t.oid, t.old_oid, t.venue, t.side, t.price, t.qty)
  ELSE [b |-> b, ret |-> Error]

\* on_batch that undoes the batch when an item fails
RECURSIVE BatchLoopUndo(_, _, _, _, _)
BatchLoopUndo(b0, b, out, rest, garbage) ==
  IF rest = << >> THEN [b |-> b, ret |-> [kind |-> "list", out |-> out]]
  ELSE LET r == BatchItem(b, Head(rest), garbage)
       IN IF r.ret = Error THEN [b |-> b0, ret |-> Error]
          ELSE BatchLoopUndo(b0, r.b,
                             IF r.ret = None THEN out ELSE Append(out, r.ret),
                             Tail(rest), garbage)

on_batch_undo(b, batch, garbage) == BatchLoopUndo(b, b, << >>, batch, garbage)

\* the loop of on_batch over the items not yet handled: an exception leaves
\* the loop and the function, and out is lost
RECURSIVE BatchLoop(_, _, _, _)
BatchLoop(b, out, rest, garbage) ==
  IF rest = << >> THEN [b |-> b, ret |-> [kind |-> "list", out |-> out]]
  ELSE LET r == BatchItem(b, Head(rest), garbage)
       IN IF r.ret = Error THEN [b |-> r.b, ret |-> Error]
          ELSE BatchLoop(r.b,
                         IF r.ret = None THEN out ELSE Append(out, r.ret),
                         Tail(rest), garbage)

on_batch(b, batch, garbage) == BatchLoop(b, << >>, batch, garbage)

(* ---------- the events fed to the book ---------- *)
MaxQty == 2
MaxPriceStep == 2
MaxBookQty == 3

Oids == {"a", "b"}
\* 'C' (venue 0) and 'B' (venue 2)
VenueCodes == {67, 66}
Sides == {"BID", "ASK"}
\* 10.000, 10.005, 10.010, ...: half a tick apart
Prices == {10000 + 5 * k : k \in 0..MaxPriceStep}
Qtys == 1..MaxQty

RECURSIVE SumOver(_, _)
SumOver(f, S) ==
  IF S = {} THEN 0
  ELSE LET x == CHOOSE y \in S : TRUE IN f[x] + SumOver(f, S \ {x})

AggTotal(sb) == SumOver([t \in DOMAIN sb.levels |-> sb.levels[t].agg], DOMAIN sb.levels)

\* what a read through the dangling reference can give: the stale value or
\* something else
Freed(b, oid) == IF oid \in DOMAIN b.omap THEN {b.omap[oid].idx, 0} ELSE {0}

\* the call takes effect; last is the call made, ret what it gave back
Apply(r, call) ==
  /\ bid_' = r.b.bid
  /\ ask_' = r.b.ask
  /\ omap_' = r.b.omap
  /\ ret' = r.ret
  /\ last' = call

Init ==
  /\ bid_ = SideBook(TRUE)
  /\ ask_ = SideBook(FALSE)
  /\ omap_ = [o \in {} |-> Meta("bid", 0, 0, 0)]
  /\ ret = None
  /\ last = [op |-> "init"]

\* the book never holds more than MaxBookQty
Room(qty) == AggTotal(bid_) + AggTotal(ask_) + qty <= MaxBookQty

AddCall(op, oid, venue_code, side_b, price, qty) ==
  [op |-> op, oid |-> oid, venue |-> venue_code, side |-> side_b,
   price |-> price, qty |-> qty]

\* on_add within its precondition: the identifier is not in the index
OnAdd(oid, venue_code, side_b, price, qty) ==
  /\ oid \notin DOMAIN omap_
  /\ Room(qty)
  /\ Apply(on_add(Book, oid, venue_code, side_b, price, qty),
           AddCall("add", oid, venue_code, side_b, price, qty))

OnCancel(oid) ==
  Apply(on_cancel(Book, oid), [op |-> "cancel", oid |-> oid])

OnReplace(new_oid, old_oid, venue_code, side_b, price, qty) ==
  /\ new_oid \notin DOMAIN omap_
  /\ Room(qty)
  /\ Apply(on_replace(Book, new_oid, old_oid, venue_code, side_b, price, qty),
           AddCall("replace", new_oid, venue_code, side_b, price, qty)
             @@ [old_oid |-> old_oid])

OnExecute(oid, exec_qty) ==
  \E freed \in Freed(Book, oid) :
    Apply(on_execute(Book, oid, exec_qty, freed),
          [op |-> "execute", oid |-> oid, qty |-> exec_qty])

\* on_add and on_replace with an identifier that is in the index
OnAddDup(oid, venue_code, side_b, price, qty) ==
  /\ oid \in DOMAIN omap_
  /\ Room(qty)
  /\ Apply(on_add(Book, oid, venue_code, side_b, price, qty),
           AddCall("add", oid, venue_code, side_b, price, qty))

OnReplaceDup(new_oid, old_oid, venue_code, side_b, price, qty) ==
  /\ new_oid \in DOMAIN omap_
  /\ Room(qty)
  /\ Apply(on_replace(Book, new_oid, old_oid, venue_code, side_b, price, qty),
           AddCall("replace", new_oid, venue_code, side_b, price, qty)
             @@ [old_oid |-> old_oid])

Next ==
  \/ \E oid \in Oids, v \in VenueCodes, s \in Sides, p \in Prices, q \in Qtys :
       OnAdd(oid, v, s, p, q)
  \/ \E oid \in Oids : OnCancel(oid)
  \/ \E n \in Oids, o \in Oids, v \in VenueCodes, s \in Sides, p \in Prices, q \in Qtys :
       OnReplace(n, o, v, s, p, q)
  \/ \E oid \in Oids, q \in Qtys : OnExecute(oid, q)

\* the life of one identifier that the feed uses again while it is live:
\* adds, cancels and executes, adds of the live identifier and replaces of
\* the live identifier by itself
DupOids == {"a"}

NextDup ==
  \/ \E oid \in DupOids, v \in VenueCodes, s \in Sides, p \in Prices, q \in Qtys :
       OnAdd(oid, v, s, p, q)
  \/ \E oid \in DupOids : OnCancel(oid)
  \/ \E oid \in DupOids, q \in Qtys : OnExecute(oid, q)
  \/ \E oid \in DupOids, v \in VenueCodes, s \in Sides, p \in Prices, q \in Qtys :
       OnAddDup(oid, v, s, p, q)
  \/ \E n \in DupOids, v \in VenueCodes, s \in Sides, p \in Prices, q \in Qtys :
       OnReplaceDup(n, n, v, s, p, q)

\* the items of a batch: adds of 2 at two bid prices, executes of 1, cancels,
\* replaces, an add with the unknown venue '?' and an unknown command
MaxBatch == 3

BatchAdds ==
  {[cmd |-> "add", oid |-> o, venue |-> IF o = "a" THEN 67 ELSE 66,
    side |-> "BID", price |-> p, qty |-> 2] : o \in Oids, p \in {10000, 10005}}

BatchEvents ==
  BatchAdds
    \cup {[cmd |-> "execute", oid |-> o, qty |-> 1] : o \in Oids}
    \cup {[cmd |-> "cancel", oid |-> o] : o \in Oids}
    \cup {[cmd |-> "replace", oid |-> "b", old_oid |-> "a", venue |-> 66,
           side |-> "BID", price |-> 10005, qty |-> 2],
          [cmd |-> "replace", oid |-> "a", old_oid |-> "b", venue |-> 67,
           side |-> "BID", price |-> 10000, qty |-> 2]}
    \cup {[cmd |-> "add", oid |-> "b", venue |-> 63, side |-> "BID",
           price |-> 10005, qty |-> 2]}
    \cup {[cmd |-> "bogus", oid |-> "a"]}

Batches == UNION {[1..n -> BatchEvents] : n \in 0..MaxBatch}

OnBatch(batch, garbage) ==
  /\ Apply(on_batch(Book, batch, garbage),
           [op |-> "batch", events |-> batch, garbage |-> garbage])

\* on_batch as the first call on a new book
NextBatch ==
  /\ last.op = "init"
  /\ \E batch \in Batches, garbage \in BOOLEAN : OnBatch(batch, garbage)

\* quantities from the whole range of uint32_t, as bit patterns: 1, 2^31 - 1,
\* 2^31 and 2^32 - 1
WideQtys == {1, INT_MAX, INT_MIN, -1}

WideOids == {"a", "b", "c"}

\* on_add of a new identifier at the bid tick of 10.00 with such a quantity
OnAddWide(oid, venue_code, qty) ==
  /\ oid \notin DOMAIN omap_
  /\ Apply(on_add(Book, oid, venue_code, "BID", 10000, qty),
           AddCall("add", oid, venue_code, "BID", 10000, qty))

NextWide ==
  \E oid \in WideOids, v \in VenueCodes, q \in WideQtys : OnAddWide(oid, v, q)

\* '?' is no venue code and "MID" no side tag
BadVenueCodes == {63}
BadSides == {"MID"}

\* on_add and on_replace with an unknown venue code or an unknown side tag
OnAddBad(oid, venue_code, side_b, price, qty) ==
  /\ venue_code \in BadVenueCodes \/ side_b \in BadSides
  /\ oid \notin DOMAIN omap_
  /\ Room(qty)
  /\ Apply(on_add(Book, oid, venue_code, side_b, price, qty),
           AddCall("add", oid, venue_code, side_b, price, qty))

OnReplaceBad(new_oid, old_oid, venue_code, side_b, price, qty) ==
  /\ venue_code \in BadVenueCodes \/ side_b \in BadSides
  /\ new_oid \notin DOMAIN omap_
  /\ Room(qty)
  /\ Apply(on_replace(Book, new_oid, old_oid, venue_code, side_b, price, qty),
           AddCall("replace", new_oid, venue_code, side_b, price, qty)
             @@ [old_oid |-> old_oid])

NextBad ==
  \/ Next
  \/ \E oid \in Oids, v \in VenueCodes \cup BadVenueCodes, s \in Sides \cup BadSides,
        p \in Prices, q \in Qtys :
       OnAddBad(oid, v, s, p, q)
  \/ \E n \in Oids, o \in Oids, v \in VenueCodes \cup BadVenueCodes,
        s \in Sides \cup BadSides, p \in Prices, q \in Qtys :
       OnReplaceBad(n, o, v, s, p, q)

\* the events of a feed that keeps identifiers unique among live orders
Spec == Init /\ [][Next]_vars

\* the same with identifiers reused while live
SpecDup == Init /\ [][NextDup]_vars

\* the same with unknown venue codes and side tags among the events
SpecBad == Init /\ [][NextBad]_vars

\* one batch of up to MaxBatch items on a new book
SpecBatch == Init /\ [][NextBatch]_vars

\* adds of large quantities at one level
SpecWide == Init /\ [][NextWide]_vars

(* ---------- properties ---------- *)
BothSides == {bid_, ask_}

VenueIds == 0..(NUM_VENUES - 1)

\* C1: on both sides ticks_ is the key set of levels_, every level has
\* agg > 0, agg is the sum of its vqty, and no vqty has wrapped below zero,
\* after every call, a failed one included.
C1_SideBooksConsistent ==
  \A sb \in BothSides :
    /\ sb.ticks = DOMAIN sb.levels
    /\ \A t \in DOMAIN sb.levels :
         /\ sb.levels[t].agg > 0
         /\ sb.levels[t].agg = SumOver(sb.levels[t].vqty, VenueIds)
         /\ \A v \in VenueIds : sb.levels[t].vqty[v] >= 0

\* a cancel has failed and the book still holds a level
C1_Witness ==
  /\ last.op = "cancel"
  /\ ret = Error
  /\ ask_.ticks # {}

VqtyAt(sb, t, v) == IF t \in DOMAIN sb.levels THEN sb.levels[t].vqty[v] ELSE 0

OrdersAt(tag, t, v) ==
  {o \in DOMAIN omap_ : omap_[o].sb = tag /\ omap_[o].idx = t /\ omap_[o].vid = v}

IndexQty(S) == SumOver([o \in S |-> omap_[o].qty], S)

AllTicks == {p2i(p) : p \in Prices}

\* C2: with every add of qty > 0 and of an identifier not in the index, the
\* quantity a venue has at a level is the sum of the quantities the index
\* records there (0 at an absent level), and so the book's total is the
\* index's total.
C2_BookMatchesIndex ==
  /\ \A tag \in {"bid", "ask"}, t \in AllTicks, v \in VenueIds :
       VqtyAt(SbOf(Book, tag), t, v) = IndexQty(OrdersAt(tag, t, v))
  /\ AggTotal(bid_) + AggTotal(ask_) = IndexQty(DOMAIN omap_)

\* two orders rest at one (side, tick, venue), one of them partly executed
C2_Witness ==
  /\ last.op = "execute"
  /\ ret.kind = "exec"
  /\ \E tag \in {"bid", "ask"}, t \in AllTicks, v \in VenueIds :
       Cardinality(OrdersAt(tag, t, v)) = 2

IndexTicks(tag) == {omap_[o].idx : o \in {x \in DOMAIN omap_ : omap_[x].sb = tag}}

\* C3: best_bid() is the highest price at which the index holds a bid order
\* and best_ask() the lowest at which it holds an ask order, none when it
\* holds no order of that side (identifiers unique among live orders).
C3_BestFollowsIndex ==
  /\ best_bid(Book) =
       IF IndexTicks("bid") = {} THEN NoPrice ELSE i2p(Max(IndexTicks("bid")))
  /\ best_ask(Book) =
       IF IndexTicks("ask") = {} THEN NoPrice ELSE i2p(Min(IndexTicks("ask")))


TagOf(side_b) == IF side_b = "BID" THEN "bid" ELSE "ask"

\* C4: on_add (qty > 0) returns an NbboChange exactly when its side held a
\* level before the call and the side's best tick is another one after it;
\* otherwise (side empty before, or the best tick unchanged) it returns none.
C4_AddReportsBestMove ==
  [][last'.op = "add" =>
       LET before == SbOf(Book, TagOf(last'.side))
           after  == SbOf(Book', TagOf(last'.side))
       IN /\ ret'.kind \in {"nbbo", "none"}
          /\ ret'.kind = "nbbo" <=>
               (before.ticks # {} /\ best_idx(after) # best_idx(before))]_vars

\* an add returned none on a side that an execute had emptied earlier
C4_Witness ==
  /\ last.op = "add"
  /\ ret = None
  /\ LET sb == SbOf(Book, TagOf(last.side)) IN
       /\ sb.ticks = {p2i(last.price)}
       /\ sb.levels[p2i(last.price)].agg = last.qty
  /\ \E o \in DOMAIN omap_ : omap_[o].qty = 0 /\ omap_[o].sb = TagOf(last.side)

Better(is_bid, p, q) == IF is_bid THEN p > q ELSE p < q

\* str holds one code for each venue with quantity at pl, ascending
IsVenueString(str, pl) ==
  /\ {str[i] : i \in 1..Len(str)} = {VENUE_CODE[v] : v \in {w \in VenueIds : pl.vqty[w] > 0}}
  /\ \A i \in 1..(Len(str) - 1) : str[i] < str[i + 1]

\* C5: an NbboChange returned by on_add carries the side's best price after
\* the add, strictly better than old_price, with that level's aggregate; and
\* the best price before the add, whose level is still in the book, with
\* that level's aggregate and venue string.
C5_AddReportContent ==
  [][(last'.op = "add" /\ ret'.kind = "nbbo") =>
       LET before == SbOf(Book, TagOf(last'.side))
           after  == SbOf(Book', TagOf(last'.side))
           old    == best_idx(before)
       IN /\ ret'.new_price = best_price(after)
          /\ Better(after.is_bid, ret'.new_price, ret'.old_price)
          /\ ret'.new_agg = after.levels[best_idx(after)].agg
          /\ before.ticks # {}
          /\ ret'.old_price = best_price(before)
          /\ old \in DOMAIN after.levels
          /\ ret'.old_agg = after.levels[old].agg
          /\ IsVenueString(ret'.old_venues, after.levels[old])]_vars

\* a lower ask was added over a best level holding more than was added
C5_Witness ==
  /\ last.op = "add"
  /\ last.side = "ASK"
  /\ ret.kind = "nbbo"
  /\ ret.new_price < ret.old_price
  /\ ret.old_agg > ret.new_agg

\* C6: on_execute of an order in the index never fails: it reports the
\* order's price and the aggregate, per-venue quantities and venue string of
\* the level at the order's tick after the removal; aggregate 0, all zeros
\* and the empty string when the level is gone.
C6_ExecuteAlwaysReports ==
  [][(last'.op = "execute" /\ last'.oid \in DOMAIN omap_) =>
       LET m     == omap_[last'.oid]
           after == SbOf(Book', m.sb)
           pl    == IF m.idx \in DOMAIN after.levels
                    THEN after.levels[m.idx] ELSE EmptyLevel
       IN /\ ret'.kind = "exec"
          /\ ret'.price = i2p(m.idx)
          /\ ret'.agg = pl.agg
          /\ ret'.per_venue = pl.vqty
          /\ ret'.venues = venue_string(pl)]_vars

\* C7: on_execute(o, q) with q >= remaining(o) leaves o out of the index, so
\* that on_cancel(o) right after it changes nothing and raises no error.
C7_FullExecuteRemoves ==
  [][(/\ last'.op = "execute"
      /\ last'.oid \in DOMAIN omap_
      /\ ~ULess(last'.qty, omap_[last'.oid].qty)) =>
       /\ last'.oid \notin DOMAIN omap_'
       /\ on_cancel(Book', last'.oid) = [b |-> Book', ret |-> None]]_vars

\* C8: every identifier in the order index has remaining qty > 0.
C8_IndexQtyPositive == \A o \in DOMAIN omap_ : omap_[o].qty > 0

\* C9: on_add(o, ...) with qty > 0 and o not in the index, followed by
\* on_cancel(o), gives back the order index and both side books as they were.
C9_AddCancelRestores ==
  \A o \in Oids \ DOMAIN omap_, v \in VenueCodes, s \in Sides, p \in Prices, q \in Qtys :
    LET a == on_add(Book, o, v, s, p, q) IN
    on_cancel(a.b, o) = [b |-> Book, ret |-> None]

\* an add that creates a level and moves the best bid is undone, and so is
\* an add into the level that is there
C9_Witness ==
  /\ bid_.ticks = {1000}
  /\ "a" \notin DOMAIN omap_
  /\ LET a == on_add(Book, "a", 67, "BID", 10005, 2) IN
       /\ a.ret.kind = "nbbo"
       /\ a.b.bid.ticks = {1000, 1001}
       /\ on_cancel(a.b, "a").b = Book
  /\ LET a == on_add(Book, "a", 67, "BID", 10000, 1) IN
       /\ a.b.bid.ticks = {1000}
       /\ a.b.bid.levels[1000].agg = bid_.levels[1000].agg + 1
       /\ on_cancel(a.b, "a").b = Book

\* C10: on_replace ends in the state on_add(new_oid, ...) followed by
\* on_cancel(old_oid) ends in, and returns what that on_add returns.
C10_ReplaceIsAddThenCancel ==
  [][last'.op = "replace" =>
       LET a == on_add(Book, last'.oid, last'.venue, last'.side, last'.price, last'.qty)
           c == on_cancel(a.b, last'.old_oid)
       IN /\ Book' = c.b
          /\ ret' = a.ret]_vars


\* C11: on_cancel and on_execute of an identifier that is not in the order
\* index return none and leave the index and both side books as they were.
C11_UnknownIdIgnored ==
  [][(last'.op \in {"cancel", "execute"} /\ last'.oid \notin DOMAIN omap_) =>
       /\ ret' = None
       /\ Book' = Book]_vars

\* an execute of an unknown identifier returned none on a book that holds
\* orders (on_execute returns none in no other case)
C11_Witness ==
  /\ last.op = "execute"
  /\ ret = None
  /\ last.oid \notin DOMAIN omap_
  /\ bid_.ticks # {}

\* C12: an on_add or on_replace with an unknown venue code or a side tag
\* that is neither "BID" nor "ASK" ends in an error and leaves the index and
\* both side books as they were.
C12_BadVenueOrSideRejected ==
  [][(/\ last'.op \in {"add", "replace"}
      /\ last'.venue \notin KnownCodes \/ last'.side \notin {"BID", "ASK"}) =>
       /\ ret' = Error
       /\ Book' = Book]_vars


\* the call an item stands for, made by the caller itself
CallOne(b, t, garbage) ==
  CASE t.cmd = "add" -> on_add(b, t.oid, t.venue, t.side, t.price, t.qty)
    [] t.cmd = "cancel" -> on_cancel(b, t.oid)
    [] t.cmd = "execute" ->
         on_execute(b, t.oid, t.qty, FreedIn(b, t.oid, garbage))
    [] t.cmd = "replace" ->
         on_replace(b, t.oid, t.old_oid, t.venue, t.side, t.price, t.qty)

\* the calls of a sequence of items made one after another: the book after
\* them, their results other than none, and whether one of them failed
RECURSIVE OneByOne(_, _, _, _, _)
OneByOne(b, out, failed, rest, garbage) ==
  IF rest = << >> THEN [b |-> b, out |-> out, failed |-> failed]
  ELSE LET r == CallOne(b, Head(rest), garbage)
       IN OneByOne(r.b,
                   IF r.ret \in {None, Error} THEN out ELSE Append(out, r.ret),
                   failed \/ r.ret = Error, Tail(rest), garbage)

Commands == {"add", "cancel", "execute", "replace"}

WellFormed(t) ==
  /\ t.cmd \in Commands
  /\ t.cmd \in {"add", "replace"} =>
       t.venue \in KnownCodes /\ t.side \in {"BID", "ASK"}

\* C13: an on_batch of well-formed items leaves the book as the calls made
\* one after another leave it and returns their results other than none, in
\* order; the result is never longer than the batch.
C13_BatchIsSequence ==
  [][(/\ last'.op = "batch"
      /\ \A i \in DOMAIN last'.events : WellFormed(last'.events[i])) =>
       LET s == OneByOne(Book, << >>, FALSE, last'.events, last'.garbage)
       IN /\ Book' = s.b
          /\ ret' = [kind |-> "list", out |-> s.out]
          /\ Len(s.out) <= Len(last'.events)]_vars

\* an item with an unknown command or an unknown venue
Malformed(t) ==
  \/ t.cmd \notin Commands
  \/ t.cmd \in {"add", "replace"} /\ t.venue \notin KnownCodes

FirstMalformed(batch) ==
  Min({i \in DOMAIN batch : Malformed(batch[i])})

\* C14: when item k of a batch fails for its command or its venue, on_batch
\* ends in that error with the items before k applied and neither k nor any
\* item after it applied.
C14_BatchStopsAtFailure ==
  [][(/\ last'.op = "batch"
      /\ \E i \in DOMAIN last'.events : Malformed(last'.events[i])) =>
       LET k == FirstMalformed(last'.events)
           s == OneByOne(Book, << >>, FALSE, SubSeq(last'.events, 1, k - 1),
                         last'.garbage)
       IN ~s.failed => ret' = Error /\ Book' = s.b]_vars

\* a batch of three: an add that took effect, an unknown command, and an add
\* of another identifier that did not take effect
C14_Witness ==
  /\ last.op = "batch"
  /\ Len(last.events) = 3
  /\ last.events[1].cmd = "add" /\ last.events[1].oid = "a"
  /\ last.events[2].cmd = "bogus"
  /\ last.events[3] \in BatchAdds /\ last.events[3].oid = "b"
  /\ ret = Error
  /\ DOMAIN omap_ = {"a"}


\* what level (tag, t) holds for venue v beyond the orders the index has there
CellLeak(b, tag, t, v) ==
  LET S == {o \in DOMAIN b.omap :
              b.omap[o].sb = tag /\ b.omap[o].idx = t /\ b.omap[o].vid = v}
  IN VqtyAt(SbOf(b, tag), t, v) - SumOver([o \in S |-> b.omap[o].qty], S)

Cells == {"bid", "ask"} \X AllTicks \X {VENUE_MAP(v) : v \in VenueCodes}

\* the cells' excess grows by q in the cell of m and nowhere else
LeaksAt(b, c, m, q) ==
  \A x \in Cells :
    CellLeak(c, x[1], x[2], x[3]) =
      CellLeak(b, x[1], x[2], x[3])
        + (IF x = <<m.sb, m.idx, m.vid>> THEN q ELSE 0)

\* C15: an on_add of an identifier that is in the index overwrites its entry
\* and leaves the old order's quantity in its level, in excess of what the
\* index holds there; an on_replace whose new_oid is its live old_oid leaves
\* the same excess; no cancel and no execute takes any excess away.
C15_DuplicateAddLeaks ==
  [][/\ (last'.op = "add" /\ last'.oid \in DOMAIN omap_) =>
          /\ omap_'[last'.oid] =
               Meta(TagOf(last'.side), p2i(last'.price),
                    VENUE_MAP(last'.venue), last'.qty)
          /\ LeaksAt(Book, Book', omap_[last'.oid], omap_[last'.oid].qty)
     /\ (/\ last'.op = "replace"
         /\ last'.oid = last'.old_oid
         /\ last'.oid \in DOMAIN omap_) =>
          LeaksAt(Book, Book', omap_[last'.oid], omap_[last'.oid].qty)
     /\ last'.op \in {"cancel", "execute"} =>
          LeaksAt(Book, Book', Meta("bid", 0, 0, 0), 0)]_vars

\* an identifier was added again while live and then cancelled: the index is
\* empty and the first order's quantity is still in the book
C15_Witness ==
  /\ last.op = "cancel"
  /\ omap_ = [o \in {} |-> Meta("bid", 0, 0, 0)]
  /\ AggTotal(bid_) + AggTotal(ask_) > 0


\* C16: the venue string of every NbboChange and ExecutionReport holds one
\* code for each venue with quantity at the level it describes, no other
\* code, in strictly ascending order of the codes.
C16_VenueStringExact ==
  [][/\ ret'.kind = "exec" =>
          LET m == omap_[last'.oid]
          IN IsVenueString(ret'.venues, SbOf(Book', m.sb).levels[m.idx])
     /\ ret'.kind = "nbbo" =>
          LET before == SbOf(Book, TagOf(last'.side))
          IN IsVenueString(ret'.old_venues, before.levels[best_idx(before)])]_vars

\* an ExecutionReport for a level with two venues, 'B' (venue 2) before 'C'
\* (venue 0)
C16_Witness ==
  /\ last.op = "execute"
  /\ ret.kind = "exec"
  /\ ret.venues = <<66, 67>>


AggAt(sb, t) == IF t \in DOMAIN sb.levels THEN sb.levels[t].agg ELSE 0

\* C17: on_execute of an order of the index with r left takes
\* take = min(exec_qty, r), never more than r, from the order and from
\* vqty[venue] and agg of its level; with exec_qty < r the order stays in the
\* index with r - exec_qty at the same side, tick and venue; no other
\* order's entry changes.
C17_ExecuteTakesMin ==
  [][(last'.op = "execute" /\ last'.oid \in DOMAIN omap_) =>
       LET oid    == last'.oid
           m      == omap_[oid]
           take   == Min({last'.qty, m.qty})
           before == SbOf(Book, m.sb)
           after  == SbOf(Book', m.sb)
       IN /\ take <= m.qty
          /\ VqtyAt(after, m.idx, m.vid) = VqtyAt(before, m.idx, m.vid) - take
          /\ AggAt(after, m.idx) = AggAt(before, m.idx) - take
          /\ oid \in DOMAIN omap_' =>
               omap_'[oid] = [m EXCEPT !.qty = m.qty - take]
          /\ last'.qty < m.qty => oid \in DOMAIN omap_'
          /\ \A o \in DOMAIN omap_' : o \in DOMAIN omap_
          /\ \A o \in (DOMAIN omap_) \ {oid} :
               o \in DOMAIN omap_' /\ omap_'[o] = omap_[o]]_vars

\* an execute of 1 left an order with 1 in the index
C17_Witness ==
  /\ last.op = "execute"
  /\ last.qty = 1
  /\ ret.kind = "exec"
  /\ last.oid \in DOMAIN omap_
  /\ omap_[last.oid].qty = 1

\* C18 as stated: on_replace returns an NbboChange exactly when the side was
\* not empty before and its best price after the whole replace differs from
\* the best price before.
C18_ReplaceReportsFinalBest ==
  [][last'.op = "replace" =>
       LET before == SbOf(Book, TagOf(last'.side))
           after  == SbOf(Book', TagOf(last'.side))
       IN ret'.kind = "nbbo" <=>
            (before.ticks # {} /\ best_price(after) # best_price(before))]_vars

\* C18: on_replace returns an NbboChange only when the side was not empty
\* before and the new order's tick is strictly better than the best tick
\* before, and none only when the side was empty or the new tick is not
\* better: the result tells of the add, not of the cancel of old_oid.
C18_ReplaceReportsAdd ==
  [][last'.op = "replace" =>
       LET before == SbOf(Book, TagOf(last'.side))
           moved  == /\ before.ticks # {}
                     /\ Better(before.is_bid, p2i(last'.price), best_idx(before))
       IN /\ ret'.kind = "nbbo" => moved
          /\ ret' = None => ~moved]_vars

\* a replace returned an NbboChange whose old level the cancel of old_oid
\* has taken off the book
C18_Witness ==
  /\ last.op = "replace"
  /\ ret.kind = "nbbo"
  /\ \A t \in SbOf(Book, TagOf(last.side)).ticks : i2p(t) # ret.old_price

\* level t of sb as far as the venues other than v go
OtherVenues(sb, t, v) == [w \in VenueIds \ {v} |-> VqtyAt(sb, t, w)]

\* sb and sc differ at most in level t
SameButLevel(sb, sc, t) ==
  /\ sb.ticks \ {t} = sc.ticks \ {t}
  /\ (DOMAIN sb.levels) \ {t} = (DOMAIN sc.levels) \ {t}
  /\ \A u \in (DOMAIN sb.levels) \ {t} : sb.levels[u] = sc.levels[u]

\* the entries of the orders other than oid are the same in both indexes
SameButOrder(om, on, oid) ==
  /\ (DOMAIN om) \ {oid} = (DOMAIN on) \ {oid}
  /\ \A o \in (DOMAIN om) \ {oid} : om[o] = on[o]

OtherTag(tag) == IF tag = "bid" THEN "ask" ELSE "bid"

\* C19: on_add leaves the other side and every other order's entry as they
\* were and changes its own side only at the tick of the add; on_cancel and
\* on_execute of an order of the index change only the level at its side
\* and tick, there only the quantity of its venue, and only its own entry.
C19_FrameOfCalls ==
  [][/\ last'.op = "add" =>
          LET tag == TagOf(last'.side)
          IN /\ SbOf(Book', OtherTag(tag)) = SbOf(Book, OtherTag(tag))
             /\ SameButLevel(SbOf(Book, tag), SbOf(Book', tag), p2i(last'.price))
             /\ SameButOrder(omap_, omap_', last'.oid)
     /\ (last'.op \in {"cancel", "execute"} /\ last'.oid \in DOMAIN omap_) =>
          LET m == omap_[last'.oid]
          IN /\ SbOf(Book', OtherTag(m.sb)) = SbOf(Book, OtherTag(m.sb))
             /\ SameButLevel(SbOf(Book, m.sb), SbOf(Book', m.sb), m.idx)
             /\ OtherVenues(SbOf(Book', m.sb), m.idx, m.vid) =
                  OtherVenues(SbOf(Book, m.sb), m.idx, m.vid)
             /\ SameButOrder(omap_, omap_', last'.oid)]_vars

\* an execute went through in a book of two orders, one on each side
C19_Witness ==
  /\ last.op = "execute"
  /\ ret.kind = "exec"
  /\ Cardinality(DOMAIN omap_) = 2
  /\ bid_.ticks # {}
  /\ ask_.ticks # {}


\* the low and the high 16 bits of the uint32_t with bit pattern x
Lo(x) == x % 65536
Hi(x) == IF x >= 0 THEN (x - Lo(x)) \div 65536
         ELSE (x - Lo(x)) \div 65536 + 65536

\* x is the sum, without wrap, of the quantities of the orders of S
IsExactSum(x, S) ==
  LET lo == SumOver([o \in S |-> Lo(omap_[o].qty)], S)
      hi == SumOver([o \in S |-> Hi(omap_[o].qty)], S)
  IN Lo(x) = lo % 65536 /\ Hi(x) = hi + lo \div 65536

\* C20: with quantities from the whole unsigned 32-bit range, vqty[venue]
\* and agg do not wrap: after on_add calls with distinct identifiers at one
\* side and tick, agg and each vqty[venue] are the exact sums of the
\* quantities added, and the level of live orders does not show agg = 0.
C20_NoWrap ==
  \A t \in IndexTicks("bid") :
    /\ t \in DOMAIN bid_.levels
    /\ bid_.levels[t].agg # 0
    /\ IsExactSum(bid_.levels[t].agg,
                  UNION {OrdersAt("bid", t, v) : v \in VenueIds})
    /\ \A v \in VenueIds :
         IsExactSum(bid_.levels[t].vqty[v], OrdersAt("bid", t, v))

====
